---- MODULE Spec2Model ----
(***************************************************************************)
(* Control plane of opensase-hr (src/src/controller/mod.rs):                *)
(*   CentralController  - global state, policy versioning and distribution, *)
(*                        PoP registration, heartbeats, rerouting           *)
(*   RegionalController - per-region policy cache                           *)
(*   FailoverManager    - lease based role state machine                    *)
(*   HealthMonitor      - per-PoP hysteresis classifier                     *)
(*                                                                         *)
(* Encodings.  HashMap<String, T> is a function whose DOMAIN is the key    *)
(* set.  Option<T> is a sequence of length 0 (None) or 1 (Some).  A        *)
(* timestamp string produced by to_rfc3339() is the second it denotes      *)
(* (a natural number); the empty string used by the tests for "never" is   *)
(* NoTime.  Result<(), ControllerError> is "Ok" or the error's name.       *)
(***************************************************************************)
EXTENDS Integers, Sequences, FiniteSets, TLC

\* ------------------------------------------------------------------ bounds
MaxVersion == 3        \* distribute_policy / apply_policy versions explored
MaxTime == 20          \* the clock stops here
TickSecs == 5          \* granularity of the clock
MaxLeaseVersion == 3   \* renewals explored per lease
MaxThreshold == 3      \* healthy_threshold, unhealthy_threshold in 1..MaxThreshold
MaxObs == 6            \* observations recorded per PoP by the HealthMonitor
MaxRcPops == 1         \* length of a standalone RegionalController's pops list

\* ------------------------------------------------------- program constants
U16 == 65536                  \* 2^16, half the width of a u32
LeaseDurationSecs == 15   \* FailoverManager::new, lease_duration_secs
NoTime == -1               \* String::new() where a timestamp is expected

\* ------------------------------------------------------------------ inputs
PolicyIds == {"firewall-1", "routing-1"}
Regions == {"us-east", "eu-west"}
PopIds == {"pop-A", "pop-B", "pop-C"}
TunnelIds == {"T1", "T2"}
Nodes == {"controller-1", "controller-2"}
Self == "controller-1"     \* ControllerConfig::default().node_id

Roles == {"Primary", "Secondary", "Observer"}
HealthStatuses == {"Healthy", "Degraded", "Unhealthy", "Unknown"}
TunnelStatuses == {"Active", "Inactive", "Degraded", "Failed"}

VARIABLES
    now,                   \* chrono::Utc::now(), in seconds
    state,                 \* CentralController.state : GlobalState
    regional_controllers,  \* CentralController.regional_controllers
    distributed,           \* history: successful distribute_policy calls per id
    rc,                    \* a RegionalController fed directly through apply_policy
    fm,                    \* FailoverManager of every controller instance
    config,                \* HealthMonitor.config : HealthConfig
    pop_health,            \* HealthMonitor.pop_health
    observed,              \* history: observations fed to the HealthMonitor per PoP
    last,                  \* history: the call made by the last step, [op, arg, result]
    ctl_call               \* history: the last CentralController call, [op, arg, payload, repeat]

vars == <<now, state, regional_controllers, distributed, rc,
          fm, config, pop_health, observed, last, ctl_call>>


\* ----------------------------------------------------------------- helpers
EmptyMap == [k \in {} |-> 0]

\* HashMap::insert
Insert(m, k, v) == [x \in (DOMAIN m) \cup {k} |-> IF x = k THEN v ELSE m[x]]

\* The orders in which a HashMap with key set S may be iterated.
Orders(S) == {s \in [1..Cardinality(S) -> S] : \A i, j \in DOMAIN s : i # j => s[i] # s[j]}

\* The call a step makes; `affected` is handle_pop_failure's affected_tunnels.
Call(op, arg, result) == [op |-> op, arg |-> arg, result |-> result, affected |-> {}]

\* A CentralController call with its argument record; repeat is 2 when the
\* previous CentralController call was the same call with the same argument
\* (the call is made twice in a row), and 1 otherwise.
CtlCall(prev, op, arg, payload) ==
    [op |-> op, arg |-> arg, payload |-> payload,
     repeat |-> IF prev.op = op /\ prev.arg = arg /\ prev.payload = payload THEN 2 ELSE 1]

\* ------------------------------------------------------------ data model
\* Policy values a caller may pass to distribute_policy / apply_policy: the
\* caller is free to put any number in the version field.
RuleSets == {<<>>, <<1>>}
PolicyInputs ==
    {[id |-> i, name |-> "Default Firewall", version |-> v, policy_type |-> "Firewall",
      rules |-> r, tenant_id |-> "tenant-1", target_pops |-> <<>>,
      created_at |-> 0, updated_at |-> NoTime] :
        i \in PolicyIds, v \in 0..MaxVersion, r \in RuleSets}

GlobalStateDefault ==
    [policies |-> EmptyMap, pops |-> EmptyMap, tunnels |-> EmptyMap, routes |-> EmptyMap]

\* ------------------------------------------------- RegionalController
RegionalControllerNew(region) ==
    [region |-> region, pops |-> <<>>, active_policies |-> EmptyMap]

\* apply_policy mutated: the policy is only cached the first time its id is seen.
apply_policy_first_only(r, policy) ==
    [result |-> "Ok",
     rc |-> IF policy.id \in DOMAIN r.active_policies THEN r
            ELSE [r EXCEPT !.active_policies = Insert(@, policy.id, policy)]]

\* RegionalController::apply_policy: the result and the controller afterwards.
apply_policy(r, policy) ==
    [result |-> "Ok",
     rc |-> [r EXCEPT !.active_policies = Insert(@, policy.id, policy)]]

\* RegionalController::register_pop
rc_register_pop(r, pop_id) == [r EXCEPT !.pops = Append(@, pop_id)]

\* ---------------------------------------------------- CentralController
CentralControllerNewRegionals == [r \in Regions |-> RegionalControllerNew(r)]

\* version_policy mutated: the caller's version field is trusted for a new id.
version_policy_trusting(st, policy, t) ==
    [policy EXCEPT !.version = IF policy.id \in DOMAIN st.policies
                               THEN st.policies[policy.id].version + 1
                               ELSE policy.version,
                   !.updated_at = t]

\* version_policy mutated: the stored version is not looked up.
version_policy_restarting(st, policy, t) ==
    [policy EXCEPT !.version = 1, !.updated_at = t]

\* CentralController::version_policy
version_policy(st, policy, t) ==
    [policy EXCEPT !.version = IF policy.id \in DOMAIN st.policies
                               THEN st.policies[policy.id].version + 1
                               ELSE 1,
                   !.updated_at = t]

\* The loop of distribute_policy over regional_controllers.values_mut(), in
\* iteration order `order`; the ? operator leaves the loop at the first error.
RECURSIVE ApplyToRegions(_, _, _)
ApplyToRegions(rcs, order, policy) ==
    IF order = <<>> THEN [result |-> "Ok", rcs |-> rcs]
    ELSE LET a == apply_policy(rcs[Head(order)], policy)
             next == [rcs EXCEPT ![Head(order)] = a.rc]
         IN  IF a.result # "Ok" THEN [result |-> a.result, rcs |-> next]
             ELSE ApplyToRegions(next, Tail(order), policy)

\* CentralController::distribute_policy
DistributePolicy(policy) ==
    /\ version_policy(state, policy, now).version <= MaxVersion
    /\ \E order \in Orders(Regions) :
        LET versioned == version_policy(state, policy, now)
            applied == ApplyToRegions(regional_controllers, order, versioned)
        IN  /\ state' = [state EXCEPT !.policies = Insert(@, versioned.id, versioned)]
            /\ regional_controllers' = applied.rcs
            /\ distributed' = IF applied.result = "Ok"
                               THEN [distributed EXCEPT ![policy.id] = @ + 1]
                               ELSE distributed
            /\ last' = Call("distribute_policy", policy.id, applied.result)
            /\ ctl_call' = CtlCall(ctl_call, "distribute_policy", policy.id, <<>>)
    /\ UNCHANGED <<now, rc, fm, config, pop_health, observed>>

\* A policy delivered straight to a RegionalController (the transport of
\* section 6 of the design: deliveries may arrive in any order).
ApplyPolicy(policy) ==
    /\ LET a == apply_policy(rc, policy)
       IN  /\ rc' = a.rc
           /\ last' = Call("apply_policy", policy.id, a.result)
    /\ UNCHANGED <<ctl_call, now, state, regional_controllers, distributed, fm, config,
                   pop_health, observed>>

\* RegionalController::register_pop on the standalone controller
RcRegisterPop(pop_id) ==
    /\ Len(rc.pops) < MaxRcPops
    /\ rc' = rc_register_pop(rc, pop_id)
    /\ last' = Call("rc_register_pop", pop_id, "Ok")
    /\ UNCHANGED <<ctl_call, now, state, regional_controllers, distributed, fm, config,
                   pop_health, observed>>

\* `role as u8` mutated: the discriminants are counted from one.
RoleAsU8_from_one(role) ==
    CASE role = "Primary" -> 1 [] role = "Secondary" -> 2 [] OTHER -> 3

\* ------------------------------------------------------ FailoverManager
\* `role as u8`
RoleAsU8(role) == CASE role = "Primary" -> 0 [] role = "Secondary" -> 1 [] OTHER -> 2

\* AtomicRole::new / AtomicRole::store: the byte kept in the AtomicU8
AtomicRoleStore(role) == RoleAsU8(role)

\* AtomicRole::load
AtomicRoleLoad(byte) ==
    IF byte = 0 THEN "Primary" ELSE IF byte = 1 THEN "Secondary" ELSE "Observer"

\* Peer lists a FailoverManager of node n may be constructed with.
PeerLists(n) ==
    {<<>>} \cup
    {<<[id |-> m, address |-> "10.0.0.2:50051", last_heartbeat |-> h]>> :
        m \in Nodes \ {n}, h \in {<<>>, <<0>>}}

\* FailoverManager::new
FailoverManagerNew(node_id, peers) ==
    [node_id |-> node_id, role |-> AtomicRoleStore("Secondary"), peers |-> peers,
     lease |-> <<>>, lease_duration_secs |-> LeaseDurationSecs]

\* FailoverManager::get_role
get_role(f) == AtomicRoleLoad(f.role)

\* FailoverManager::is_primary
is_primary(f) == AtomicRoleLoad(f.role) = "Primary"

\* acquire_lease mutated: a lease that is already held is kept.
acquire_lease_keeping(f, t) ==
    [result |-> "Ok",
     fm |-> [f EXCEPT !.lease = IF f.lease # <<>> THEN f.lease
                                ELSE <<[holder |-> f.node_id, acquired_at |-> t,
                                        expires_at |-> t + f.lease_duration_secs,
                                        version |-> 1]>>,
                      !.role = AtomicRoleStore("Primary")]]

\* FailoverManager::acquire_lease at time t
acquire_lease(f, t) ==
    [result |-> "Ok",
     fm |-> [f EXCEPT !.lease = <<[holder |-> f.node_id, acquired_at |-> t,
                                   expires_at |-> t + f.lease_duration_secs,
                                   version |-> 1]>>,
                      !.role = AtomicRoleStore("Primary")]]

\* renew_lease mutated: a missing lease is created instead of reported.
renew_lease_creating(f, t) ==
    IF f.lease # <<>>
    THEN [result |-> "Ok",
          fm |-> [f EXCEPT !.lease = <<[f.lease[1] EXCEPT
                                          !.expires_at = t + f.lease_duration_secs,
                                          !.version = @ + 1]>>]]
    ELSE [result |-> "Ok",
          fm |-> [f EXCEPT !.lease = <<[holder |-> f.node_id, acquired_at |-> t,
                                        expires_at |-> t + f.lease_duration_secs,
                                        version |-> 1]>>,
                           !.role = AtomicRoleStore("Primary")]]

\* FailoverManager::renew_lease at time t
renew_lease(f, t) ==
    IF f.lease # <<>>
    THEN [result |-> "Ok",
          fm |-> [f EXCEPT !.lease = <<[f.lease[1] EXCEPT
                                          !.expires_at = t + f.lease_duration_secs,
                                          !.version = @ + 1]>>]]
    ELSE [result |-> "NoLease", fm |-> f]

\* primary_alive mutated: the instance looks at its own role.
primary_alive_by_role(f) == AtomicRoleLoad(f.role) = "Primary"

\* FailoverManager::primary_alive
primary_alive(f) == \E i \in DOMAIN f.peers : f.peers[i].last_heartbeat # <<>>

\* step_down mutated: the lease is dropped but the role is kept.
step_down_keeps_role(f) == [f EXCEPT !.lease = <<>>]

\* step_down mutated: the role is reset but the lease record is kept.
step_down_keeps_lease(f) == [f EXCEPT !.role = AtomicRoleStore("Secondary")]

\* FailoverManager::step_down
step_down(f) == [f EXCEPT !.role = AtomicRoleStore("Secondary"), !.lease = <<>>]

AcquireLease(n) ==
    /\ LET a == acquire_lease(fm[n], now)
       IN  /\ fm' = [fm EXCEPT ![n] = a.fm]
           /\ last' = Call("acquire_lease", n, a.result)
    /\ UNCHANGED <<ctl_call, now, state, regional_controllers, distributed, rc, config,
                   pop_health, observed>>

RenewLease(n) ==
    /\ fm[n].lease # <<>> => fm[n].lease[1].version < MaxLeaseVersion
    /\ LET a == renew_lease(fm[n], now)
       IN  /\ fm' = [fm EXCEPT ![n] = a.fm]
           /\ last' = Call("renew_lease", n, a.result)
    /\ UNCHANGED <<ctl_call, now, state, regional_controllers, distributed, rc, config,
                   pop_health, observed>>

StepDown(n) ==
    /\ fm' = [fm EXCEPT ![n] = step_down(fm[n])]
    /\ last' = Call("step_down", n, "Ok")
    /\ UNCHANGED <<ctl_call, now, state, regional_controllers, distributed, rc, config,
                   pop_health, observed>>

\* A reader thread calls FailoverManager::get_role: one SeqCst load.
GetRole(n) ==
    /\ last' = Call("get_role", n, get_role(fm[n]))
    /\ UNCHANGED <<ctl_call, now, state, regional_controllers, distributed, rc, fm, config,
                   pop_health, observed>>

\* A reader thread calls FailoverManager::is_primary: one SeqCst load.
IsPrimary(n) ==
    /\ last' = Call("is_primary", n, IF is_primary(fm[n]) THEN "true" ELSE "false")
    /\ UNCHANGED <<ctl_call, now, state, regional_controllers, distributed, rc, fm, config,
                   pop_health, observed>>

\* The wall clock read by chrono::Utc::now() advances.
Tick ==
    /\ now + TickSecs <= MaxTime
    /\ now' = now + TickSecs
    /\ last' = Call("tick", "clock", "Ok")
    /\ UNCHANGED <<ctl_call, state, regional_controllers, distributed, rc, fm, config,
                   pop_health, observed>>

\* --------------------------------------- CentralController: PoPs, tunnels
\* HealthStatus::is_healthy
is_healthy(h) == h \in {"Healthy", "Degraded"}

\* PopInfo::latency_to (10.0 for every PoP and client location)
latency_to(pop, client_location) == 10

\* PopInfo records a caller may register under id p: reporting Healthy with
\* live gauges, or not yet observed.
PopInfoInputs(p) ==
    {[id |-> p, location |-> "Virginia", region |-> "us-east", health |-> "Healthy",
      active_connections |-> 1000, cpu_usage |-> 45, memory_usage |-> 60,
      bandwidth_mbps |-> 500, last_heartbeat |-> 0],
     [id |-> p, location |-> "Virginia", region |-> "us-east", health |-> "Unknown",
      active_connections |-> 0, cpu_usage |-> 0, memory_usage |-> 0,
      bandwidth_mbps |-> 500, last_heartbeat |-> NoTime]}

\* PopStatus payloads a heartbeat may carry.
PopStatusInputs ==
    {[health |-> h, cpu_usage |-> 50, memory_usage |-> 70, active_connections |-> 500] :
        h \in HealthStatuses}

\* Tunnels a GlobalState may hold when the controller starts to serve.
EndpointLists == {<<"pop-A">>, <<"pop-B">>, <<"pop-A", "pop-B">>, <<"pop-B", "pop-C">>}
InitialTunnelStatuses == {"Degraded"}
TunnelInputs(t) ==
    {[id |-> t, tenant_id |-> "tenant-1", name |-> t, endpoints |-> e,
      client_location |-> "Lagos", status |-> s, bandwidth_limit_mbps |-> <<100>>] :
        e \in EndpointLists, s \in InitialTunnelStatuses}
InitialTunnels ==
    {f \in [TunnelIds -> UNION {TunnelInputs(t) : t \in TunnelIds}] :
        \A t \in TunnelIds : f[t].id = t}

\* Vec::contains
Contains(seq, x) == \E i \in DOMAIN seq : seq[i] = x

\* register_pop mutated: entry().or_insert() keeps a record that exists.
register_pop_keeping(st, pop) ==
    IF pop.id \in DOMAIN st.pops THEN st ELSE [st EXCEPT !.pops = Insert(@, pop.id, pop)]

\* CentralController::register_pop
register_pop(st, pop) == [st EXCEPT !.pops = Insert(@, pop.id, pop)]

\* CentralController::get_pop_status: pops.get(pop_id).cloned()
get_pop_status(st, pop_id) ==
    IF pop_id \in DOMAIN st.pops THEN <<st.pops[pop_id]>> ELSE <<>>

\* process_heartbeat mutated: the connection gauge is added up, not set.
process_heartbeat_accumulating(st, pop_id, status, t) ==
    IF pop_id \in DOMAIN st.pops
    THEN [st EXCEPT !.pops[pop_id] =
             [@ EXCEPT !.health = status.health,
                       !.cpu_usage = status.cpu_usage,
                       !.memory_usage = status.memory_usage,
                       !.active_connections = @ + status.active_connections,
                       !.last_heartbeat = t]]
    ELSE st

\* process_heartbeat mutated: a heartbeat of an unknown id creates a record.
process_heartbeat_upserting(st, pop_id, status, t) ==
    [st EXCEPT !.pops =
        Insert(@, pop_id,
               [(IF pop_id \in DOMAIN st.pops THEN st.pops[pop_id]
                 ELSE [id |-> pop_id, location |-> "", region |-> "", health |-> "Unknown",
                       active_connections |-> 0, cpu_usage |-> 0, memory_usage |-> 0,
                       bandwidth_mbps |-> 0, last_heartbeat |-> NoTime])
                EXCEPT !.health = status.health,
                       !.cpu_usage = status.cpu_usage,
                       !.memory_usage = status.memory_usage,
                       !.active_connections = status.active_connections,
                       !.last_heartbeat = t])]

\* process_heartbeat mutated: the record is rebuilt from the payload.
process_heartbeat_replacing(st, pop_id, status, t) ==
    IF pop_id \in DOMAIN st.pops
    THEN [st EXCEPT !.pops[pop_id] =
             [id |-> pop_id, location |-> "", region |-> "", health |-> status.health,
              active_connections |-> status.active_connections,
              cpu_usage |-> status.cpu_usage, memory_usage |-> status.memory_usage,
              bandwidth_mbps |-> 0, last_heartbeat |-> t]]
    ELSE st

\* CentralController::process_heartbeat at time t
process_heartbeat(st, pop_id, status, t) ==
    IF pop_id \in DOMAIN st.pops
    THEN [st EXCEPT !.pops[pop_id] =
             [@ EXCEPT !.health = status.health,
                       !.cpu_usage = status.cpu_usage,
                       !.memory_usage = status.memory_usage,
                       !.active_connections = status.active_connections,
                       !.last_heartbeat = t]]
    ELSE st

\* Vec::sort_by on (id, latency) pairs: a stable sort by ascending latency.
RECURSIVE StableInsert(_, _)
StableInsert(sorted, x) ==
    IF sorted = <<>> THEN <<x>>
    ELSE IF sorted[Len(sorted)].latency <= x.latency THEN Append(sorted, x)
    ELSE Append(StableInsert(SubSeq(sorted, 1, Len(sorted) - 1), x), sorted[Len(sorted)])

RECURSIVE SortByLatency(_)
SortByLatency(c) ==
    IF c = <<>> THEN <<>>
    ELSE StableInsert(SortByLatency(SubSeq(c, 1, Len(c) - 1)), c[Len(c)])

\* Candidates mutated: the PoPs the tunnel already ends at are skipped.
RECURSIVE Candidates_skipping_endpoints(_, _, _)
Candidates_skipping_endpoints(pops, porder, tunnel) ==
    IF porder = <<>> THEN <<>>
    ELSE LET p == pops[Head(porder)]
             rest == Candidates_skipping_endpoints(pops, Tail(porder), tunnel)
         IN  IF is_healthy(p.health) /\ ~Contains(tunnel.endpoints, p.id)
             THEN <<[id |-> p.id, latency |-> latency_to(p, tunnel.client_location)]>> \o rest
             ELSE rest

\* The candidate list of find_nearest_healthy_pop before sorting, with the pops
\* map iterated in order `porder`.
RECURSIVE Candidates(_, _, _)
Candidates(pops, porder, tunnel) ==
    IF porder = <<>> THEN <<>>
    ELSE LET p == pops[Head(porder)]
             rest == Candidates(pops, Tail(porder), tunnel)
         IN  IF is_healthy(p.health)
             THEN <<[id |-> p.id, latency |-> latency_to(p, tunnel.client_location)]>> \o rest
             ELSE rest

\* find_nearest_healthy_pop mutated: the is_healthy filter is lost.
find_nearest_pop_unfiltered(pops, porder, tunnel) ==
    IF porder = <<>> THEN [result |-> "NoHealthyPops", pop |-> ""]
    ELSE [result |-> "Ok", pop |-> pops[Head(porder)].id]

\* find_nearest_healthy_pop mutated: an empty candidate list yields the
\* default id instead of NoHealthyPops.
find_nearest_healthy_pop_defaulting(pops, porder, tunnel) ==
    LET candidates == SortByLatency(Candidates(pops, porder, tunnel))
    IN  IF candidates = <<>> THEN [result |-> "Ok", pop |-> ""]
        ELSE [result |-> "Ok", pop |-> candidates[1].id]

\* CentralController::find_nearest_healthy_pop
find_nearest_healthy_pop(pops, porder, tunnel) ==
    LET candidates == SortByLatency(Candidates(pops, porder, tunnel))
    IN  IF candidates = <<>> THEN [result |-> "NoHealthyPops", pop |-> ""]
        ELSE [result |-> "Ok", pop |-> candidates[1].id]

\* reroute_tunnel mutated: the tunnel is rebuilt and loses its bandwidth limit.
reroute_tunnel_rebuilding(tunnels, tunnel_id, new_pop) ==
    IF tunnel_id \in DOMAIN tunnels
    THEN [tunnels EXCEPT ![tunnel_id] = [@ EXCEPT !.endpoints = <<new_pop>>,
                                                  !.status = "Active",
                                                  !.bandwidth_limit_mbps = <<>>]]
    ELSE tunnels

\* CentralController::reroute_tunnel
reroute_tunnel(tunnels, tunnel_id, new_pop) ==
    IF tunnel_id \in DOMAIN tunnels
    THEN [tunnels EXCEPT ![tunnel_id] = [@ EXCEPT !.endpoints = <<new_pop>>,
                                                  !.status = "Active"]]
    ELSE tunnels

\* The loop of handle_pop_failure over affected_tunnels (cloned before the
\* loop, listed in order `torder`); the ? operator leaves at the first error.
RECURSIVE RerouteAll(_, _, _, _, _)
RerouteAll(tunnels, affected, torder, pops, porder) ==
    IF torder = <<>> THEN [result |-> "Ok", tunnels |-> tunnels]
    ELSE LET f == find_nearest_healthy_pop(pops, porder, affected[Head(torder)])
         IN  IF f.result # "Ok" THEN [result |-> f.result, tunnels |-> tunnels]
             ELSE RerouteAll(reroute_tunnel(tunnels, affected[Head(torder)].id, f.pop),
                             affected, Tail(torder), pops, porder)

\* The ids of the tunnels handle_pop_failure collects for pop_id.
AffectedTunnels(st, pop_id) ==
    {t \in DOMAIN st.tunnels : Contains(st.tunnels[t].endpoints, pop_id)}

\* Every outcome handle_pop_failure(pop_id) can have on GlobalState st: the
\* HashMaps st.tunnels and st.pops are iterated in an order that their
\* contents do not fix (std's RandomState seeds every map differently).
HandlePopFailureOutcomes(st, pop_id) ==
    {RerouteAll(st.tunnels, st.tunnels, torder, st.pops, porder) :
        torder \in Orders(AffectedTunnels(st, pop_id)),
        porder \in Orders(DOMAIN st.pops)}

RegisterPop(pop) ==
    /\ state' = register_pop(state, pop)
    /\ last' = Call("register_pop", pop.id, "Ok")
    /\ ctl_call' = CtlCall(ctl_call, "register_pop", pop.id, pop)
    /\ UNCHANGED <<now, regional_controllers, distributed, rc, fm, config,
                   pop_health, observed>>

ProcessHeartbeat(pop_id, status) ==
    /\ state' = process_heartbeat(state, pop_id, status, now)
    /\ last' = Call("process_heartbeat", pop_id, "Ok")
    /\ ctl_call' = CtlCall(ctl_call, "process_heartbeat", pop_id, status)
    /\ UNCHANGED <<now, regional_controllers, distributed, rc, fm, config,
                   pop_health, observed>>

\* CentralController::handle_pop_failure
HandlePopFailure(pop_id) ==
    /\ \E torder \in Orders(AffectedTunnels(state, pop_id)) :
       \E porder \in Orders(DOMAIN state.pops) :
        LET r == RerouteAll(state.tunnels, state.tunnels, torder, state.pops, porder)
        IN  /\ state' = [state EXCEPT !.tunnels = r.tunnels]
            /\ last' = [Call("handle_pop_failure", pop_id, r.result) EXCEPT
                           !.affected = AffectedTunnels(state, pop_id)]
            /\ ctl_call' = CtlCall(ctl_call, "handle_pop_failure", pop_id, <<>>)
    /\ UNCHANGED <<now, regional_controllers, distributed, rc, fm, config,
                   pop_health, observed>>

\* ---------------------------------------------------------- HealthMonitor
\* A u32 is kept as its two 16-bit halves <<high, low>>, so that every value
\* up to u32::MAX has a representation.
U32(n) == <<n \div U16, n % U16>>
U32Max == <<U16 - 1, U16 - 1>>

\* a >= b on u32
U32Geq(a, b) == a[1] > b[1] \/ (a[1] = b[1] /\ a[2] >= b[2])

\* `c += 1` on a u32 without overflow checks (release profile): wraps.
U32WrappingInc(c) ==
    IF c = U32Max THEN U32(0)
    ELSE IF c[2] = U16 - 1 THEN <<c[1] + 1, 0>>
    ELSE <<c[1], c[2] + 1>>

HealthTrackerNew ==
    [consecutive_failures |-> U32(0), consecutive_successes |-> U32(0),
     current_status |-> "Unknown"]

\* HashMap::entry(k).or_insert(v) mutated: the map is rebuilt around the entry.
OrInsert_rebuilding(m, k, v) == IF k \in DOMAIN m THEN Insert(EmptyMap, k, m[k]) ELSE Insert(EmptyMap, k, v)

\* HashMap::entry(k).or_insert(v)
OrInsert(m, k, v) == IF k \in DOMAIN m THEN m ELSE Insert(m, k, v)

\* HealthMonitor::record_success
record_success(cfg, health, pop_id) ==
    LET m == OrInsert(health, pop_id, HealthTrackerNew)
        counted == [m[pop_id] EXCEPT !.consecutive_successes = U32WrappingInc(@),
                                     !.consecutive_failures = U32(0)]
    IN  [m EXCEPT ![pop_id] =
            IF U32Geq(counted.consecutive_successes, U32(cfg.healthy_threshold))
            THEN [counted EXCEPT !.current_status = "Healthy"]
            ELSE counted]

\* `tracker.consecutive_successes += 1` overflows in record_success.
record_success_overflows(health, pop_id) ==
    pop_id \in DOMAIN health /\ health[pop_id].consecutive_successes = U32Max

\* record_failure mutated: any failure classifies the PoP as Unhealthy.
record_failure_no_degraded(cfg, health, pop_id) ==
    LET m == OrInsert(health, pop_id, HealthTrackerNew)
    IN  [m EXCEPT ![pop_id] = [@ EXCEPT !.consecutive_failures = U32WrappingInc(@),
                                        !.consecutive_successes = U32(0),
                                        !.current_status = "Unhealthy"]]

\* HealthMonitor::record_failure
record_failure(cfg, health, pop_id) ==
    LET m == OrInsert(health, pop_id, HealthTrackerNew)
        counted == [m[pop_id] EXCEPT !.consecutive_failures = U32WrappingInc(@),
                                     !.consecutive_successes = U32(0)]
    IN  [m EXCEPT ![pop_id] =
            IF U32Geq(counted.consecutive_failures, U32(cfg.unhealthy_threshold))
            THEN [counted EXCEPT !.current_status = "Unhealthy"]
            ELSE IF counted.consecutive_failures # U32(0)
            THEN [counted EXCEPT !.current_status = "Degraded"]
            ELSE counted]

\* `tracker.consecutive_failures += 1` overflows in record_failure.
record_failure_overflows(health, pop_id) ==
    pop_id \in DOMAIN health /\ health[pop_id].consecutive_failures = U32Max

\* HealthMonitor::get_status
get_status(health, pop_id) ==
    IF pop_id \in DOMAIN health THEN health[pop_id].current_status ELSE "Unknown"

\* HealthConfig values a HealthMonitor may be constructed with.
HealthConfigs ==
    {[check_interval_ms |-> 5000, unhealthy_threshold |-> u, healthy_threshold |-> h] :
        u \in 0..MaxThreshold, h \in 0..MaxThreshold}

MonitoredPops == {"pop-1", "pop-2"}

\* With overflow checks (dev profile) an overflowing `+= 1` panics before it
\* assigns; without them (release profile) it wraps.
RecordSuccess(pop_id) ==
    /\ Len(observed) < MaxObs
    /\ \E overflow_checks \in BOOLEAN :
          IF overflow_checks /\ record_success_overflows(pop_health, pop_id)
          THEN /\ pop_health' = pop_health
               /\ last' = Call("record_success", pop_id, "panic")
          ELSE /\ pop_health' = record_success(config, pop_health, pop_id)
               /\ last' = Call("record_success", pop_id, "Ok")
    /\ observed' = Append(observed, [pop |-> pop_id, ok |-> TRUE])
    /\ UNCHANGED <<ctl_call, now, state, regional_controllers, distributed, rc, fm, config>>

RecordFailure(pop_id) ==
    /\ Len(observed) < MaxObs
    /\ \E overflow_checks \in BOOLEAN :
          IF overflow_checks /\ record_failure_overflows(pop_health, pop_id)
          THEN /\ pop_health' = pop_health
               /\ last' = Call("record_failure", pop_id, "panic")
          ELSE /\ pop_health' = record_failure(config, pop_health, pop_id)
               /\ last' = Call("record_failure", pop_id, "Ok")
    /\ observed' = Append(observed, [pop |-> pop_id, ok |-> FALSE])
    /\ UNCHANGED <<ctl_call, now, state, regional_controllers, distributed, rc, fm, config>>

\* What the HealthMonitor was told about pop_id, oldest first: TRUE for
\* record_success, FALSE for record_failure.
ObservationsOf(pop_id) ==
    LET sel == SelectSeq(observed, LAMBDA e : e.pop = pop_id)
    IN  [i \in 1..Len(sel) |-> sel[i].ok]

\* ---------------------------------------------------------- specifications
\* The state after construction of every component.
InitCommon ==
    /\ now = 0
    /\ regional_controllers = CentralControllerNewRegionals
    /\ distributed = [i \in PolicyIds |-> 0]
    /\ rc = RegionalControllerNew("eu-west")
    /\ pop_health = EmptyMap
    /\ observed = <<>>
    /\ last = Call("new", "", "Ok")
    /\ ctl_call = [op |-> "new", arg |-> "", payload |-> <<>>, repeat |-> 1]

InitFm == fm \in {f \in [Nodes -> UNION {{FailoverManagerNew(n, p) : p \in PeerLists(n)} : n \in Nodes}] :
                     \A n \in Nodes : f[n].node_id = n}

InitFmDefault == fm = [n \in Nodes |-> FailoverManagerNew(n, <<>>)]

InitConfigDefault ==
    config = [check_interval_ms |-> 5000, unhealthy_threshold |-> 3, healthy_threshold |-> 2]

\* Policy versioning and distribution, and deliveries to a RegionalController.
InitPolicy ==
    InitCommon /\ InitFmDefault /\ InitConfigDefault /\ state = GlobalStateDefault

NextPolicy ==
    \/ \E policy \in PolicyInputs : DistributePolicy(policy)
    \/ Tick

SpecPolicy == InitPolicy /\ [][NextPolicy]_vars

\* A RegionalController on its own, receiving deliveries in any order.
InitRegional ==
    InitCommon /\ InitFmDefault /\ InitConfigDefault /\ state = GlobalStateDefault

NextRegional ==
    \/ \E policy \in PolicyInputs : ApplyPolicy(policy)
    \/ \E p \in PopIds : RcRegisterPop(p)

SpecRegional == InitRegional /\ [][NextRegional]_vars

\* Lease based failover of the controller instances.
InitFailover ==
    InitCommon /\ InitFm /\ InitConfigDefault /\ state = GlobalStateDefault

NextFailover ==
    \/ \E n \in Nodes : AcquireLease(n)
    \/ \E n \in Nodes : RenewLease(n)
    \/ \E n \in Nodes : StepDown(n)
    \/ Tick

SpecFailover == InitFailover /\ [][NextFailover]_vars

\* PoP registration, heartbeats and rerouting over a GlobalState holding tunnels.
InitPops ==
    /\ InitCommon /\ InitFmDefault /\ InitConfigDefault
    /\ \E tn \in InitialTunnels : state = [GlobalStateDefault EXCEPT !.tunnels = tn]

NextPops ==
    \/ \E p \in PopIds : \E pop \in PopInfoInputs(p) : RegisterPop(pop)
    \/ \E p \in PopIds : \E status \in PopStatusInputs : ProcessHeartbeat(p, status)
    \/ \E p \in PopIds : HandlePopFailure(p)

SpecPops == InitPops /\ [][NextPops]_vars

\* The HealthMonitor under every configuration.
InitHealth ==
    /\ InitCommon /\ InitFmDefault /\ state = GlobalStateDefault
    /\ config \in HealthConfigs

NextHealth ==
    \/ \E p \in MonitoredPops : RecordSuccess(p)
    \/ \E p \in MonitoredPops : RecordFailure(p)

SpecHealth == InitHealth /\ [][NextHealth]_vars

\* One controller instance: the CentralController built by new() together with
\* the FailoverManager of the same node.
InitInstance ==
    InitCommon /\ InitFmDefault /\ InitConfigDefault /\ state = GlobalStateDefault

InstancePops == {"pop-A"}
InstancePolicies == {policy \in PolicyInputs : policy.id = "firewall-1"}

NextInstance ==
    \/ AcquireLease(Self)
    \/ RenewLease(Self)
    \/ StepDown(Self)
    \/ \E p \in InstancePops : \E pop \in PopInfoInputs(p) : RegisterPop(pop)
    \/ \E p \in InstancePops : \E status \in PopStatusInputs : ProcessHeartbeat(p, status)
    \/ \E p \in InstancePops : HandlePopFailure(p)
    \/ \E policy \in InstancePolicies : DistributePolicy(policy)

SpecInstance == InitInstance /\ [][NextInstance]_vars

\* Readers of the role interleaved with the election logic of the instances.
NextRoleReads ==
    \/ NextFailover
    \/ \E n \in Nodes : GetRole(n)
    \/ \E n \in Nodes : IsPrimary(n)

SpecRoleReads == InitFailover /\ [][NextRoleReads]_vars

\* A HealthMonitor that has been running for long: pop-1 has been observed
\* u32::MAX - 1 times in a row with the same outcome (the log `observed`
\* starts here), pop-2 never.
LongObservedTrackers ==
    {[consecutive_failures |-> U32(0), consecutive_successes |-> <<U16 - 1, U16 - 2>>,
      current_status |-> "Healthy"],
     [consecutive_failures |-> <<U16 - 1, U16 - 2>>, consecutive_successes |-> U32(0),
      current_status |-> "Unhealthy"]}

InitLongRun ==
    /\ now = 0
    /\ regional_controllers = CentralControllerNewRegionals
    /\ distributed = [i \in PolicyIds |-> 0]
    /\ rc = RegionalControllerNew("eu-west")
    /\ observed = <<>>
    /\ last = Call("new", "", "Ok")
    /\ ctl_call = [op |-> "new", arg |-> "", payload |-> <<>>, repeat |-> 1]
    /\ InitFmDefault /\ InitConfigDefault /\ state = GlobalStateDefault
    /\ \E t \in LongObservedTrackers : pop_health = Insert(EmptyMap, "pop-1", t)

SpecLongRun == InitLongRun /\ [][NextHealth]_vars

\* PoP registration and heartbeats of one CentralController while time passes.
InitHeartbeat ==
    InitCommon /\ InitFmDefault /\ InitConfigDefault /\ state = GlobalStateDefault

HeartbeatPops == {"pop-A", "pop-B"}

NextHeartbeat ==
    \/ \E p \in HeartbeatPops : \E pop \in PopInfoInputs(p) : RegisterPop(pop)
    \/ \E p \in HeartbeatPops : \E status \in PopStatusInputs : ProcessHeartbeat(p, status)
    \/ Tick

SpecHeartbeat == InitHeartbeat /\ [][NextHeartbeat]_vars

\* A CentralController that starts from a loaded GlobalState whose tunnels
\* end at PoPs it knows, serving every call of the controller.
TunnelEndpointsKnown(st) ==
    \A t \in DOMAIN st.tunnels : \A i \in DOMAIN st.tunnels[t].endpoints :
        st.tunnels[t].endpoints[i] \in DOMAIN st.pops

LoadedPopIds == {"pop-A", "pop-B"}

LoadedPops ==
    {f \in [LoadedPopIds -> UNION {PopInfoInputs(p) : p \in LoadedPopIds}] :
        \A p \in LoadedPopIds : f[p].id = p}

LoadedStates ==
    {st \in [policies : {EmptyMap}, pops : LoadedPops, tunnels : InitialTunnels,
              routes : {EmptyMap}] : TunnelEndpointsKnown(st)}

LoadedPolicies == {policy \in InstancePolicies : policy.version = 0 /\ policy.rules = <<>>}

InitLoaded ==
    InitCommon /\ InitFmDefault /\ InitConfigDefault /\ state \in LoadedStates

NextLoaded ==
    \/ \E p \in LoadedPopIds : \E pop \in PopInfoInputs(p) : RegisterPop(pop)
    \/ \E p \in LoadedPopIds : \E status \in PopStatusInputs : ProcessHeartbeat(p, status)
    \/ \E p \in LoadedPopIds : HandlePopFailure(p)
    \/ \E policy \in LoadedPolicies : DistributePolicy(policy)

SpecLoaded == InitLoaded /\ [][NextLoaded]_vars

Init == InitPolicy
Next == NextPolicy
Spec == SpecPolicy

\* ------------------------------------------------------------- properties

\* C1 - Version monotonicity: after N successful distribute_policy calls for a
\* policy id, whatever the caller wrote in the version field and however the
\* calls for other ids interleave, the stored policy has version N; an id
\* never distributed is not stored.
C1_VersionMonotonicity ==
    \A i \in PolicyIds :
        /\ (distributed[i] = 0) <=> (i \notin DOMAIN state.policies)
        /\ i \in DOMAIN state.policies => state.policies[i].version = distributed[i]

C1_Witness ==
    /\ distributed["firewall-1"] = 3
    /\ distributed["routing-1"] = 1
    /\ state.policies["firewall-1"].version = 3
    /\ state.policies["routing-1"].version = 1

\* C2 - After successful distributions every RegionalController of the
\* configured regions caches, for every distributed policy id, the version
\* the central GlobalState holds.
C2_RegionsMatchCentral ==
    \A r \in Regions : \A i \in PolicyIds :
        distributed[i] > 0 =>
            /\ i \in DOMAIN state.policies
            /\ i \in DOMAIN regional_controllers[r].active_policies
            /\ regional_controllers[r].active_policies[i].version = state.policies[i].version

C2_Witness ==
    /\ last.op = "distribute_policy" /\ last.result = "Ok"
    /\ last.arg \in DOMAIN state.policies
    /\ state.policies[last.arg].version = 2
    /\ \A r \in Regions : regional_controllers[r].active_policies[last.arg].version = 2

\* C3 - A region never applies an older version after a newer one: across
\* apply_policy deliveries the version cached for a policy id never decreases.
C3_NoRegression ==
    [][\A i \in DOMAIN rc.active_policies :
          rc'.active_policies[i].version >= rc.active_policies[i].version]_vars

\* C4 - Leader uniqueness: at no time do two instances both report
\* is_primary() while each holds a lease that has not expired.
C4_LeaderUniqueness ==
    Cardinality({n \in Nodes : /\ is_primary(fm[n])
                               /\ fm[n].lease # <<>>
                               /\ now < fm[n].lease[1].expires_at}) <= 1

\* C5 - Lease lifecycle: a fresh FailoverManager is Secondary without a lease;
\* acquire_lease on a fresh manager makes it Primary with a lease; step_down,
\* from any state, leaves it Secondary without a lease; renew_lease on a
\* manager without a lease returns NoLease.
C5_LeaseLifecycle ==
    /\ \A n \in Nodes : get_role(fm[n]) = "Secondary" /\ fm[n].lease = <<>>
    /\ [][\A n \in Nodes :
            /\ (last'.op = "acquire_lease" /\ last'.arg = n
                    /\ get_role(fm[n]) = "Secondary" /\ fm[n].lease = <<>>)
                => (get_role(fm'[n]) = "Primary" /\ fm'[n].lease # <<>>
                    /\ last'.result = "Ok")
            /\ (last'.op = "step_down" /\ last'.arg = n)
                => (get_role(fm'[n]) = "Secondary" /\ fm'[n].lease = <<>>)
            /\ (last'.op = "renew_lease" /\ last'.arg = n /\ fm[n].lease = <<>>)
                => last'.result = "NoLease"]_vars

C5_Witness ==
    /\ last.op = "step_down"
    /\ get_role(fm[last.arg]) = "Secondary" /\ fm[last.arg].lease = <<>>
    /\ \E n \in Nodes \ {last.arg} : is_primary(fm[n]) /\ fm[n].lease[1].version > 1

\* C6 - A Primary whose lease reaches expires_at without renewal returns to
\* Secondary: no manager reports is_primary() with an expired lease.
C6_ExpiryDemotes ==
    \A n \in Nodes :
        (fm[n].lease # <<>> /\ now >= fm[n].lease[1].expires_at) => ~is_primary(fm[n])

\* C7 - Only the Primary mutates global state: a step that changes the
\* instance's GlobalState or regional caches is taken while the instance's
\* FailoverManager reports Primary.
C7_OnlyPrimaryMutates ==
    [][(state' # state \/ regional_controllers' # regional_controllers)
          => is_primary(fm[Self])]_vars

\* The observations are exactly ns successes followed by nf failures.
IsPattern(obs, ns, nf) ==
    /\ Len(obs) = ns + nf
    /\ \A i \in 1..Len(obs) : obs[i] = (i <= ns)

\* C8 - Health hysteresis: with healthy_threshold h >= 1 and
\* unhealthy_threshold u >= 2, a PoP observed for the first time stays Unknown
\* for its first h-1 successes, is Healthy at the h-th, Degraded after the
\* next failure, and Unhealthy exactly from the u-th consecutive failure.
C8_Hysteresis ==
    LET h == config.healthy_threshold
        u == config.unhealthy_threshold
    IN  (h >= 1 /\ u >= 2) =>
        \A p \in MonitoredPops :
            LET obs == ObservationsOf(p)
                st == get_status(pop_health, p)
            IN  /\ \A k \in 0..(h - 1) : IsPattern(obs, k, 0) => st = "Unknown"
                /\ IsPattern(obs, h, 0) => st = "Healthy"
                /\ \A j \in 1..(u - 1) : IsPattern(obs, h, j) => st = "Degraded"
                /\ IsPattern(obs, h, u) => st = "Unhealthy"

C8_Witness ==
    /\ config.healthy_threshold = 2 /\ config.unhealthy_threshold = 3
    /\ IsPattern(ObservationsOf("pop-1"), 2, 3)
    /\ get_status(pop_health, "pop-1") = "Unhealthy"

\* C9 - Slow recovery: a PoP classified Unhealthy stays Unhealthy until
\* healthy_threshold consecutive successes are recorded, and then is Healthy.
C9_SlowRecovery ==
    [][\A p \in DOMAIN pop_health :
          pop_health[p].current_status = "Unhealthy" =>
              \/ pop_health'[p].current_status = "Unhealthy"
              \/ /\ pop_health'[p].current_status = "Healthy"
                 /\ U32Geq(pop_health'[p].consecutive_successes,
                           U32(config.healthy_threshold))]_vars

\* C10 - Rerouting correctness: when handle_pop_failure(p) returns Ok, every
\* tunnel that had p among its endpoints before the call has exactly one
\* endpoint and status Active afterwards, and that endpoint is a known PoP
\* whose health is Healthy or Degraded and whose latency to the tunnel's
\* client location is minimal among the PoPs with such health.
C10_ReroutingCorrect ==
    [][(last'.op = "handle_pop_failure" /\ last'.result = "Ok") =>
          \A t \in DOMAIN state.tunnels :
              Contains(state.tunnels[t].endpoints, last'.arg) =>
                  LET tn == state'.tunnels[t]
                  IN  /\ Len(tn.endpoints) = 1
                      /\ tn.status = "Active"
                      /\ tn.endpoints[1] \in DOMAIN state.pops
                      /\ is_healthy(state.pops[tn.endpoints[1]].health)
                      /\ \A q \in DOMAIN state.pops :
                             is_healthy(state.pops[q].health) =>
                                 latency_to(state.pops[tn.endpoints[1]], tn.client_location)
                                     <= latency_to(state.pops[q], tn.client_location)]_vars

C10_Witness ==
    /\ last.op = "handle_pop_failure" /\ last.result = "Ok"
    /\ last.affected = TunnelIds
    /\ \E q \in DOMAIN state.pops :
          /\ state.pops[q].health = "Degraded"
          /\ \A t \in TunnelIds : state.tunnels[t].endpoints = <<q>>
    /\ \E q \in DOMAIN state.pops : state.pops[q].health = "Unhealthy"
    /\ \E q \in DOMAIN state.pops : state.pops[q].health = "Unknown"

\* C11 - No-healthy-PoP error and all-or-nothing rerouting:
\* handle_pop_failure(p) returns NoHealthyPops exactly when at least one
\* tunnel has p among its endpoints and no known PoP has health Healthy or
\* Degraded; in that case no tunnel is modified. When no tunnel has p among
\* its endpoints the call returns Ok, whatever the health of the PoPs.
C11_NoHealthyPopsAllOrNothing ==
    [][last'.op = "handle_pop_failure" =>
          LET p == last'.arg
              touched == {t \in DOMAIN state.tunnels :
                             \E i \in DOMAIN state.tunnels[t].endpoints :
                                 state.tunnels[t].endpoints[i] = p}
              usable == {q \in DOMAIN state.pops :
                            state.pops[q].health \in {"Healthy", "Degraded"}}
          IN  /\ last'.result \in {"Ok", "NoHealthyPops"}
              /\ last'.result = "NoHealthyPops" <=> (touched # {} /\ usable = {})
              /\ last'.result = "NoHealthyPops" => state' = state
              /\ touched = {} => (last'.result = "Ok" /\ state' = state)]_vars

C11_Witness ==
    /\ last.op = "handle_pop_failure" /\ last.result = "NoHealthyPops"
    /\ last.affected = TunnelIds
    /\ DOMAIN state.pops = PopIds
    /\ \A q \in PopIds : state.pops[q].health \in {"Unhealthy", "Unknown"}
    /\ \A t \in TunnelIds : state.tunnels[t].status = "Degraded"

\* C12 - Deterministic tie-break: when several healthy PoPs have the same
\* minimal latency, the PoP handle_pop_failure chooses is a function of the
\* GlobalState contents only, so two controllers holding the same GlobalState
\* reroute every tunnel to the same PoP.
C12_DeterministicTieBreak ==
    \A p \in PopIds : Cardinality(HandlePopFailureOutcomes(state, p)) = 1

\* C13 - Heartbeat idempotence: for a registered PoP, process_heartbeat called
\* twice in a row with an identical payload leaves the same PopInfo as the
\* first call left.
C13_HeartbeatIdempotent ==
    [][(/\ last'.op = "process_heartbeat"
        /\ ctl_call'.repeat = 2
        /\ last'.arg \in DOMAIN state.pops) =>
          get_pop_status(state', last'.arg) = get_pop_status(state, last'.arg)]_vars

\* C13 (amended) - the second of two identical heartbeats in a row changes
\* nothing of GlobalState but last_heartbeat of the PoP, which takes the time
\* of the second call: health and the gauges are set, not accumulated.
C13_HeartbeatIdempotentUpToTimestamp ==
    [][(/\ last'.op = "process_heartbeat"
        /\ ctl_call'.repeat = 2
        /\ last'.arg \in DOMAIN state.pops) =>
          state' = [state EXCEPT !.pops[last'.arg].last_heartbeat = now]]_vars

C13_Witness ==
    /\ last.op = "process_heartbeat" /\ ctl_call.repeat = 2
    /\ last.arg \in DOMAIN state.pops
    /\ now > 0
    /\ state.pops[last.arg].last_heartbeat = now
    /\ state.pops[last.arg].health = "Degraded"
    /\ state.pops[last.arg].active_connections = ctl_call.payload.active_connections

\* C14 - Heartbeat for an unknown PoP is dropped: process_heartbeat always
\* returns Ok; for an id that is not registered it creates no record and
\* leaves GlobalState unchanged; for a registered id it sets health,
\* cpu_usage, memory_usage and active_connections to the payload's values
\* and leaves every other PoP, policy and tunnel alone.
C14_UnknownHeartbeatDropped ==
    [][last'.op = "process_heartbeat" =>
          LET p == last'.arg
              payload == ctl_call'.payload
          IN  /\ last'.result = "Ok"
              /\ p \notin DOMAIN state.pops =>
                     (state' = state /\ get_pop_status(state', p) = <<>>)
              /\ p \in DOMAIN state.pops =>
                     /\ DOMAIN state'.pops = DOMAIN state.pops
                     /\ state'.pops[p].health = payload.health
                     /\ state'.pops[p].cpu_usage = payload.cpu_usage
                     /\ state'.pops[p].memory_usage = payload.memory_usage
                     /\ state'.pops[p].active_connections = payload.active_connections
                     /\ state'.pops[p].id = state.pops[p].id
                     /\ state'.pops[p].location = state.pops[p].location
                     /\ state'.pops[p].region = state.pops[p].region
                     /\ state'.pops[p].bandwidth_mbps = state.pops[p].bandwidth_mbps
                     /\ \A q \in DOMAIN state.pops \ {p} : state'.pops[q] = state.pops[q]
                     /\ state'.policies = state.policies
                     /\ state'.tunnels = state.tunnels]_vars

C14_Witness ==
    /\ last.op = "process_heartbeat" /\ last.result = "Ok"
    /\ last.arg \notin DOMAIN state.pops
    /\ ctl_call.payload.health = "Healthy"
    /\ DOMAIN state.pops # {}
    /\ now > 0

\* C15 - PoP registration: register_pop always returns Ok and afterwards
\* get_pop_status(id) returns exactly the registered record, also when the id
\* was registered before (the whole record is overwritten); the PoP records
\* are those of the ids ever registered: a registration adds its id, and no
\* operation removes a PoP.
C15_RegistrationStoresRecord ==
    /\ DOMAIN state.pops = {}
    /\ [][IF last'.op = "register_pop"
           THEN /\ last'.result = "Ok"
                /\ get_pop_status(state', last'.arg) = <<ctl_call'.payload>>
                /\ DOMAIN state'.pops = DOMAIN state.pops \cup {last'.arg}
                /\ \A q \in DOMAIN state.pops \ {last'.arg} :
                       state'.pops[q] = state.pops[q]
           ELSE DOMAIN state'.pops = DOMAIN state.pops]_vars

C15_Witness ==
    /\ last.op = "register_pop" /\ last.result = "Ok"
    /\ DOMAIN state.pops = PopIds
    /\ state.pops[last.arg].health = "Unknown"
    /\ state.pops[last.arg].last_heartbeat = NoTime
    /\ \E q \in PopIds \ {last.arg} : state.pops[q].cpu_usage = 50
    /\ \E t \in TunnelIds : state.tunnels[t].status = "Active"

\* C16 - Role reads are safe under concurrency: a store of role r followed by
\* a load returns r; a get_role() or is_primary() interleaved with the writes
\* of acquire_lease and step_down changes nothing and returns the role of
\* the most recent store (Primary after an acquire_lease, Secondary after
\* construction or a step_down, always one of the three roles); is_primary()
\* is true exactly when get_role() is Primary; no other operation changes
\* the role.
C16_RoleReadsSafe ==
    /\ \A r \in Roles : AtomicRoleLoad(AtomicRoleStore(r)) = r
    /\ \A n \in Nodes : get_role(fm[n]) = "Secondary"
    /\ [][\A n \in Nodes :
             /\ get_role(fm'[n]) \in Roles
             /\ is_primary(fm'[n]) <=> get_role(fm'[n]) = "Primary"
             /\ (last'.op = "acquire_lease" /\ last'.arg = n) => get_role(fm'[n]) = "Primary"
             /\ (last'.op = "step_down" /\ last'.arg = n) => get_role(fm'[n]) = "Secondary"
             /\ ~(last'.op \in {"acquire_lease", "step_down"} /\ last'.arg = n) =>
                    get_role(fm'[n]) = get_role(fm[n])
             /\ (last'.op = "get_role" /\ last'.arg = n) =>
                    (last'.result = get_role(fm[n]) /\ fm' = fm)
             /\ (last'.op = "is_primary" /\ last'.arg = n) =>
                    /\ last'.result = (IF get_role(fm[n]) = "Primary" THEN "true" ELSE "false")
                    /\ fm' = fm]_vars

C16_Witness ==
    /\ last.op = "is_primary" /\ last.result = "true"
    /\ get_role(fm[last.arg]) = "Primary"
    /\ \E n \in Nodes \ {last.arg} : get_role(fm[n]) = "Secondary" /\ fm[n].lease = <<>>
    /\ fm[last.arg].lease # <<>> /\ fm[last.arg].lease[1].version > 1

\* b is a + 1 as u32 values (kept as 16-bit halves); u32::MAX has no successor.
U32IsSucc(a, b) ==
    \/ b[1] = a[1] /\ b[2] = a[2] + 1 /\ b[2] < U16
    \/ b[1] = a[1] + 1 /\ b[1] < U16 /\ a[2] = U16 - 1 /\ b[2] = 0

\* The tracker record_success / record_failure finds for pop_id: the stored
\* one, or the fresh one or_insert creates.
TrackerBefore(pop_id) ==
    IF pop_id \in DOMAIN pop_health THEN pop_health[pop_id] ELSE HealthTrackerNew

\* C17 - No operation crashes: every record_success and record_failure call
\* returns normally, and its increment of consecutive_successes /
\* consecutive_failures (u32) does not overflow, after any number of calls.
C17_NoCrashNoOverflow ==
    /\ last.result # "panic"
    /\ last.op = "record_success" =>
           pop_health[last.arg].consecutive_successes # U32(0)
    /\ last.op = "record_failure" =>
           pop_health[last.arg].consecutive_failures # U32(0)

\* C18 - record_success(p) increments p's consecutive_successes by 1 and
\* resets consecutive_failures to 0; the status becomes Healthy if and only
\* if the incremented count is >= healthy_threshold, otherwise the status is
\* left unchanged.
C18_RecordSuccessCounts ==
    [][last'.op = "record_success" =>
          LET before == TrackerBefore(last'.arg)
              after == pop_health'[last'.arg]
          IN  /\ last'.result = "Ok"
              /\ U32IsSucc(before.consecutive_successes, after.consecutive_successes)
              /\ after.consecutive_failures = U32(0)
              /\ after.current_status =
                     IF U32Geq(after.consecutive_successes, U32(config.healthy_threshold))
                     THEN "Healthy" ELSE before.current_status]_vars

\* C19 - record_failure(p) increments p's consecutive_failures by 1 and
\* resets consecutive_successes to 0; the status becomes Unhealthy if the
\* incremented count is >= unhealthy_threshold and Degraded otherwise, so
\* after a record_failure the status is never Healthy or Unknown.
C19_RecordFailureCounts ==
    [][last'.op = "record_failure" =>
          LET before == TrackerBefore(last'.arg)
              after == pop_health'[last'.arg]
          IN  /\ last'.result = "Ok"
              /\ U32IsSucc(before.consecutive_failures, after.consecutive_failures)
              /\ after.consecutive_successes = U32(0)
              /\ after.current_status =
                     IF U32Geq(after.consecutive_failures, U32(config.unhealthy_threshold))
                     THEN "Unhealthy" ELSE "Degraded"
              /\ after.current_status \notin {"Healthy", "Unknown"}]_vars

\* C20 - Trackers are independent: get_status of an id that was never
\* observed is Unknown and no tracker exists for it; record_success(p) and
\* record_failure(p) leave the tracker and the status of every other PoP
\* unchanged.
C20_TrackersIndependent ==
    /\ [](\A p \in {"pop-1", "pop-2", "pop-3"} :
             ObservationsOf(p) = <<>> =>
                 (get_status(pop_health, p) = "Unknown" /\ p \notin DOMAIN pop_health))
    /\ [][last'.op \in {"record_success", "record_failure"} =>
             \A q \in {"pop-1", "pop-2", "pop-3"} \ {last'.arg} :
                 /\ get_status(pop_health', q) = get_status(pop_health, q)
                 /\ q \in DOMAIN pop_health' <=> q \in DOMAIN pop_health
                 /\ q \in DOMAIN pop_health => pop_health'[q] = pop_health[q]]_vars

C20_Witness ==
    /\ last.op = "record_success" /\ last.arg = "pop-2"
    /\ config.healthy_threshold = 2 /\ config.unhealthy_threshold = 3
    /\ get_status(pop_health, "pop-1") = "Unhealthy"
    /\ pop_health["pop-1"].consecutive_failures = U32(3)
    /\ get_status(pop_health, "pop-2") = "Healthy"
    /\ get_status(pop_health, "pop-3") = "Unknown"

C22_AcquireAlwaysSucceeds ==
    [][\A n \in Nodes :
          (last'.op = "acquire_lease" /\ last'.arg = n) =>
              /\ last'.result = "Ok"
              /\ get_role(fm'[n]) = "Primary"
              /\ Len(fm'[n].lease) = 1
              /\ fm'[n].lease[1].holder = n
              /\ fm'[n].lease[1].version = 1
              /\ fm'[n].lease[1].acquired_at = now
              /\ fm'[n].lease[1].expires_at = now + LeaseDurationSecs
              /\ \A m \in Nodes \ {n} : fm'[m] = fm[m]]_vars

C22_Witness ==
    /\ last.op = "acquire_lease" /\ last.result = "Ok"
    /\ now > 0
    /\ fm[last.arg].lease # <<>>
    /\ fm[last.arg].lease[1].version = 1 /\ fm[last.arg].lease[1].acquired_at = now
    /\ \E m \in Nodes \ {last.arg} :
           /\ is_primary(fm[m]) /\ fm[m].lease # <<>>
           /\ fm[m].lease[1].version > 1 /\ now < fm[m].lease[1].expires_at

\* C24 - renew_lease on a manager that holds a lease returns Ok, increases
\* the lease version by exactly 1, moves expires_at to a time not earlier
\* than before and leaves holder, acquired_at and the role unchanged; on a
\* manager with no lease it returns NoLease and leaves role and lease
\* unchanged.
C24_RenewBumpsVersion ==
    [][\A n \in Nodes :
          (last'.op = "renew_lease" /\ last'.arg = n) =>
              IF fm[n].lease # <<>>
              THEN /\ last'.result = "Ok"
                   /\ Len(fm'[n].lease) = 1
                   /\ fm'[n].lease[1].version = fm[n].lease[1].version + 1
                   /\ fm'[n].lease[1].expires_at >= fm[n].lease[1].expires_at
                   /\ fm'[n].lease[1].holder = fm[n].lease[1].holder
                   /\ fm'[n].lease[1].acquired_at = fm[n].lease[1].acquired_at
                   /\ get_role(fm'[n]) = get_role(fm[n])
              ELSE /\ last'.result = "NoLease"
                   /\ fm' = fm]_vars

C24_Witness ==
    /\ last.op = "renew_lease" /\ last.result = "Ok"
    /\ fm[last.arg].lease[1].version = MaxLeaseVersion
    /\ fm[last.arg].lease[1].acquired_at < now
    /\ fm[last.arg].lease[1].expires_at = now + LeaseDurationSecs
    /\ \E m \in Nodes \ {last.arg} : fm[m].lease = <<>>

\* C25 - In every state reachable through new, acquire_lease, renew_lease
\* and step_down a FailoverManager's role is Primary if and only if it holds
\* a lease record, the lease holder is the manager's own node_id, and the
\* role is never Observer.
C25_PrimaryIffLease ==
    \A n \in Nodes :
        /\ get_role(fm[n]) = "Primary" <=> fm[n].lease # <<>>
        /\ fm[n].lease # <<>> => fm[n].lease[1].holder = fm[n].node_id
        /\ get_role(fm[n]) # "Observer"

C25_Witness ==
    /\ last.op = "step_down"
    /\ get_role(fm[last.arg]) = "Secondary" /\ fm[last.arg].lease = <<>>
    /\ \E m \in Nodes \ {last.arg} :
           /\ get_role(fm[m]) = "Primary"
           /\ fm[m].lease # <<>> /\ fm[m].lease[1].holder = m
           /\ now >= fm[m].lease[1].expires_at

\* C26 - primary_alive() is true exactly when at least one configured peer
\* has a recorded last_heartbeat (false for an empty peer list); it does not
\* depend on the instance's role or lease, and no acquire_lease, renew_lease
\* or step_down changes the peer list or its value.
C26_PrimaryAliveOnlyPeers ==
    /\ [](\A n \in Nodes :
             primary_alive(fm[n]) <=>
                 Len(SelectSeq(fm[n].peers, LAMBDA peer : Len(peer.last_heartbeat) = 1)) > 0)
    /\ [][\A n \in Nodes :
             /\ fm'[n].peers = fm[n].peers
             /\ primary_alive(fm'[n]) <=> primary_alive(fm[n])]_vars

C26_Witness ==
    /\ last.op = "acquire_lease"
    /\ is_primary(fm[last.arg]) /\ ~primary_alive(fm[last.arg])
    /\ fm[last.arg].peers # <<>>
    /\ \E m \in Nodes \ {last.arg} : ~is_primary(fm[m]) /\ primary_alive(fm[m])

\* C27 - After handle_pop_failure(p) returns Ok no tunnel still has p among
\* its endpoints: the PoP chosen as the new endpoint is never p itself, even
\* when p's recorded health is still Healthy or Degraded.
C27_TrafficLeavesFailedPop ==
    [][(last'.op = "handle_pop_failure" /\ last'.result = "Ok") =>
          \A t \in DOMAIN state'.tunnels :
              ~Contains(state'.tunnels[t].endpoints, last'.arg)]_vars

\* C28 - Frame of handle_pop_failure(p): whether it succeeds or fails,
\* tunnels whose endpoints do not contain p are unchanged, the set of tunnel
\* ids is unchanged, of a tunnel that had p among its endpoints only
\* endpoints and status may change, and the pops, policies and routes maps
\* are unchanged.
C28_FailureFrame ==
    [][last'.op = "handle_pop_failure" =>
          /\ DOMAIN state'.tunnels = DOMAIN state.tunnels
          /\ \A t \in DOMAIN state.tunnels :
                 IF Contains(state.tunnels[t].endpoints, last'.arg)
                 THEN state'.tunnels[t] =
                          [state.tunnels[t] EXCEPT !.endpoints = state'.tunnels[t].endpoints,
                                                   !.status = state'.tunnels[t].status]
                 ELSE state'.tunnels[t] = state.tunnels[t]
          /\ state'.pops = state.pops
          /\ state'.policies = state.policies
          /\ state'.routes = state.routes
          /\ regional_controllers' = regional_controllers]_vars

C28_Witness ==
    /\ last.op = "handle_pop_failure" /\ last.result = "Ok"
    /\ Cardinality(last.affected) = 1
    /\ \E t \in TunnelIds \ last.affected :
           /\ state.tunnels[t].status = "Degraded"
           /\ ~Contains(state.tunnels[t].endpoints, last.arg)
    /\ \E t \in last.affected :
           /\ state.tunnels[t].status = "Active"
           /\ state.tunnels[t].bandwidth_limit_mbps = <<100>>
    /\ last.arg \in DOMAIN state.pops /\ state.pops[last.arg].health = "Healthy"

\* C29 - Tunnel endpoint integrity: starting from a GlobalState in which
\* every tunnel's endpoints reference only PoP ids present in pops, the same
\* holds in every state reachable by register_pop, process_heartbeat,
\* distribute_policy and handle_pop_failure calls.
C29_EndpointIntegrity ==
    \A t \in DOMAIN state.tunnels :
        \A i \in 1..Len(state.tunnels[t].endpoints) :
            \E q \in DOMAIN state.pops :
                state.pops[q].id = state.tunnels[t].endpoints[i] /\ q = state.pops[q].id

C29_Witness ==
    /\ last.op = "handle_pop_failure" /\ last.result = "Ok"
    /\ last.affected = TunnelIds
    /\ \A t \in TunnelIds : state.tunnels[t].endpoints # <<last.arg>>
    /\ state.pops[last.arg].health = "Unhealthy"
    /\ "firewall-1" \in DOMAIN state.policies

\* C30 - Frame of process_heartbeat(p, status) for a known PoP p: only p's
\* health, cpu_usage, memory_usage, active_connections and last_heartbeat
\* may change; p's id, location, region and bandwidth_mbps are kept, every
\* other PoP record is unchanged, and policies, tunnels, routes and every
\* RegionalController cache are unchanged.
C30_HeartbeatFrame ==
    [][(last'.op = "process_heartbeat" /\ last'.arg \in DOMAIN state.pops) =>
          LET p == last'.arg
          IN  /\ state'.pops =
                     [state.pops EXCEPT ![p] =
                         [@ EXCEPT !.health = state'.pops[p].health,
                                   !.cpu_usage = state'.pops[p].cpu_usage,
                                   !.memory_usage = state'.pops[p].memory_usage,
                                   !.active_connections = state'.pops[p].active_connections,
                                   !.last_heartbeat = state'.pops[p].last_heartbeat]]
              /\ state'.policies = state.policies
              /\ state'.tunnels = state.tunnels
              /\ state'.routes = state.routes
              /\ regional_controllers' = regional_controllers]_vars

C30_Witness ==
    /\ last.op = "process_heartbeat" /\ last.arg \in DOMAIN state.pops
    /\ ctl_call.payload.health = "Unhealthy"
    /\ state.pops[last.arg].health = "Unhealthy"
    /\ state.pops[last.arg].location = "Virginia"
    /\ \E t \in TunnelIds :
           /\ Contains(state.tunnels[t].endpoints, last.arg)
           /\ state.tunnels[t].status = "Degraded"
    /\ "firewall-1" \in DOMAIN state.policies
    /\ \A r \in Regions : "firewall-1" \in DOMAIN regional_controllers[r].active_policies

\* C31 - In every reachable HealthMonitor state and for every tracked PoP,
\* exactly one of consecutive_successes and consecutive_failures is non-zero;
\* status Healthy implies consecutive_failures = 0 and consecutive_successes
\* >= healthy_threshold; and status Unknown implies that no failure was ever
\* recorded for the PoP.
C31_TrackerConsistent ==
    \A p \in DOMAIN pop_health :
        LET tracker == pop_health[p]
        IN  /\ (tracker.consecutive_successes = U32(0))
                   # (tracker.consecutive_failures = U32(0))
            /\ tracker.current_status = "Healthy" =>
                   /\ tracker.consecutive_failures = U32(0)
                   /\ U32Geq(tracker.consecutive_successes, U32(config.healthy_threshold))
            /\ tracker.current_status = "Unknown" =>
                   \A i \in DOMAIN ObservationsOf(p) : ObservationsOf(p)[i]

====
